---- MODULE Spec2Model ----
(***************************************************************************)
(* Model of the skill-tree stat plotter (src/src/main.rs): the build       *)
(* state (strength, intelligence, dexterity), the perk catalog produced by *)
(* StatApp::default, the +/-/Reset controls of StatApp::update and the     *)
(* geometry (sector resolution, elliptical radius, unlock test).           *)
(*                                                                         *)
(* Number representation.  The program computes in f32; the model computes *)
(* in exact fixed point:                                                   *)
(*   - stat values and radii are integers counting hundredths (Fx(10) is   *)
(*     the f32 value 10.0);                                                *)
(*   - angles are integers counting eighths of a degree (Deg(45) is        *)
(*     45 deg); the f32 angles the generator computes are spaced one       *)
(*     eighth below 4 rad and two eighths from 4 rad on, as f32 doubles    *)
(*     its spacing there, and a sum or product is rounded to the nearest   *)
(*     of them, ties to the even one (f32_round);                          *)
(*   - the sector parameter t counts 1/1080 (TOne is t = 1.0): every t of  *)
(*     the grid k/36 gives an angle that needs no rounding, and one step   *)
(*     of t moves the angle by between half a step and one step of its     *)
(*     spacing, as the last step of an f32 t below 1.0 does;               *)
(*   - cos^2 and sin^2 come from a table at steps of 2.5 deg of phi,       *)
(*     scaled by 10^6, so the radius is defined for t on the grid k/36.    *)
(* Products exceed 32 bits, so the radius is computed on naturals written  *)
(* as base-1000 digit sequences, BigOf etc.                                 *)
(***************************************************************************)
EXTENDS Integers, Sequences, FiniteSets

\* ------------------------------------------------------------------------
\* Fixed point and exact natural-number arithmetic

Fx(x) == x * 100

Deg(d) == d * 8

TOne == 1080

BigBase == 1000

BigWidth == 8

RECURSIVE BigDigits(_, _)
BigDigits(n, i) ==
    IF i > BigWidth THEN <<>>
    ELSE <<n % BigBase>> \o BigDigits(n \div BigBase, i + 1)

\* The natural n < 2^31 as BigWidth digits, least significant first.
BigOf(n) == BigDigits(n, 1)

RECURSIVE BigMulCarry(_, _, _, _)
BigMulCarry(a, m, i, carry) ==
    IF i > BigWidth THEN <<>>
    ELSE LET x == a[i] * m + carry
         IN  <<x % BigBase>> \o BigMulCarry(a, m, i + 1, x \div BigBase)

\* a * m for a natural m <= 2 * 10^6.
BigMulSmall(a, m) == BigMulCarry(a, m, 1, 0)

RECURSIVE BigAddCarry(_, _, _, _)
BigAddCarry(a, b, i, carry) ==
    IF i > BigWidth THEN <<>>
    ELSE LET x == a[i] + b[i] + carry
         IN  <<x % BigBase>> \o BigAddCarry(a, b, i + 1, x \div BigBase)

BigAdd(a, b) == BigAddCarry(a, b, 1, 0)

RECURSIVE BigLeqFrom(_, _, _)
BigLeqFrom(a, b, i) ==
    IF i = 0 THEN TRUE
    ELSE IF a[i] # b[i] THEN a[i] < b[i]
    ELSE BigLeqFrom(a, b, i - 1)

BigLeq(a, b) == BigLeqFrom(a, b, BigWidth)

RECURSIVE BigProdFrom(_, _, _)
BigProdFrom(acc, factors, i) ==
    IF i > Len(factors) THEN acc
    ELSE BigProdFrom(BigMulSmall(acc, factors[i]), factors, i + 1)

\* The product of a sequence of naturals, each <= 2 * 10^6.
BigProd(factors) == BigProdFrom(BigOf(1), factors, 1)

\* ------------------------------------------------------------------------
\* Constants (main.rs 6-13)

MAX_STAT_VAL == Fx(100)
MIN_STAT_VAL == Fx(10)
MAX_TOTAL_POINTS == Fx(120)

ANG_STR_RED == Deg(135)
ANG_DEX_GREEN == Deg(45)
ANG_INT_BLUE == Deg(270)
TWO_PI == Deg(360)

\* ------------------------------------------------------------------------
\* calculate_ellipse_radius (main.rs 36-43)

\* round(10^6 * cos^2(k * 2.5 deg)), k = 0..36: phi.cos().powi(2) on the grid.
Cos2Table ==
    << 1000000, 998097, 992404, 982963, 969846, 953154, 933013, 909576,
       883022, 853553, 821394, 786788, 750000, 711309, 671010, 629410,
       586824, 543578, 500000, 456422, 413176, 370590, 328990, 288691,
       250000, 213212, 178606, 146447, 116978, 90424, 66987, 46846,
       30154, 17037, 7596, 1903, 0 >>

\* t (in 1/1080) is on the grid when phi = t * 90 deg is a multiple of 2.5 deg.
OnGrid(t) == t % 30 = 0

\* cos^2(phi) * 10^6 for phi = t * (PI / 2); cos^2 has period 180 deg and is even.
Cos2(t) ==
    LET j == (t \div 30) % 72
    IN  Cos2Table[(IF j > 36 THEN 72 - j ELSE j) + 1]

Sin2(t) == 1000000 - Cos2(t)

\* EllipseDenominator with cos and sin exchanged: (v2 * sin phi)^2 + (v1 * cos phi)^2.
EllipseDenominator_swapped(v1, v2, t) ==
    BigAdd(BigProd(<<v2, v2, Sin2(t)>>), BigProd(<<v1, v1, Cos2(t)>>))

\* (v2 * cos phi)^2 + (v1 * sin phi)^2, scaled by 10^6.
EllipseDenominator(v1, v2, t) ==
    BigAdd(BigProd(<<v2, v2, Cos2(t)>>), BigProd(<<v1, v1, Sin2(t)>>))

\* (v1 * v2)^2, scaled by 10^6.
EllipseNumerator(v1, v2) == BigProd(<<v1, v1, v2, v2, 1000, 1000>>)

\* Whether rho <= sqrt(num / den), decided exactly as rho^2 * den <= num.
RadiusAtLeast(rho, num, den) ==
    BigLeq(BigMulSmall(BigMulSmall(den, rho), rho), num)

\* The largest rho in lo..hi with RadiusAtLeast (lo has it).
RECURSIVE RadiusSearch(_, _, _, _)
RadiusSearch(lo, hi, num, den) ==
    IF lo >= hi THEN lo
    ELSE LET mid == (lo + hi + 1) \div 2
         IN  IF RadiusAtLeast(mid, num, den)
             THEN RadiusSearch(mid, hi, num, den)
             ELSE RadiusSearch(lo, mid - 1, num, den)

\* (v1 * v2) / sqrt((v2 * cos phi)^2 + (v1 * sin phi)^2) with phi = t * (PI / 2),
\* in hundredths, rounded down.
calculate_ellipse_radius(v1, v2, t_sector) ==
    IF v1 < Fx(1) /\ v2 < Fx(1) THEN 0
    ELSE RadiusSearch(0, v1 + v2,
                      EllipseNumerator(v1, v2),
                      EllipseDenominator(v1, v2, t_sector))

\* ------------------------------------------------------------------------
\* get_current_radius_at_angle (main.rs 209-232).  self is a record of the
\* three stat fields.

\* angle_rad.to_degrees().rem_euclid(360.0)
angle_deg_of(angle_rad) == angle_rad % Deg(360)

\* (45.0..135.0).contains(&angle_deg) (line 212)
in_dex_str_sector(angle_deg) == Deg(45) <= angle_deg /\ angle_deg < Deg(135)

\* in_str_int_sector with the range closed at its upper end (135.0..=270.0).
in_str_int_sector_inclusive(angle_deg) ==
    Deg(135) <= angle_deg /\ angle_deg <= Deg(270)

\* (135.0..270.0).contains(&angle_deg) (line 215)
in_str_int_sector(angle_deg) == Deg(135) <= angle_deg /\ angle_deg < Deg(270)

\* The if/else chain of lines 212-228: the two governing fields and t_sector.
\* t is computed from angle_rad itself, as the code does, not from angle_deg.
SectorOf(angle_rad) ==
    LET angle_deg == angle_deg_of(angle_rad)
    IN  IF in_dex_str_sector(angle_deg)
        THEN [v1 |-> "dexterity", v2 |-> "strength",
              t  |-> ((angle_rad - ANG_DEX_GREEN) * TOne)
                       \div (ANG_STR_RED - ANG_DEX_GREEN)]
        ELSE IF in_str_int_sector(angle_deg)
        THEN [v1 |-> "strength", v2 |-> "intelligence",
              t  |-> ((angle_rad - ANG_STR_RED) * TOne)
                       \div (ANG_INT_BLUE - ANG_STR_RED)]
        ELSE LET start == ANG_INT_BLUE
                 end   == ANG_DEX_GREEN + TWO_PI
                 curr  == IF angle_rad < ANG_INT_BLUE
                          THEN angle_rad + TWO_PI
                          ELSE angle_rad
             IN  [v1 |-> "intelligence", v2 |-> "dexterity",
                  t  |-> ((curr - start) * TOne) \div (end - start)]

get_current_radius_at_angle(self, angle_rad) ==
    LET s == SectorOf(angle_rad)
    IN  calculate_ellipse_radius(self[s.v1], self[s.v2], s.t)

\* Whether rho <= get_current_radius_at_angle(self, angle_rad), decided on
\* the exact quotient (the same test the radius is the largest solution of),
\* with the degenerate case of calculate_ellipse_radius.
radius_reaches(self, angle_rad, rho) ==
    LET s  == SectorOf(angle_rad)
        v1 == self[s.v1]
        v2 == self[s.v2]
    IN  IF rho <= 0 THEN TRUE
        ELSE IF v1 < Fx(1) /\ v2 < Fx(1) THEN FALSE
        ELSE RadiusAtLeast(rho, EllipseNumerator(v1, v2),
                           EllipseDenominator(v1, v2, s.t))

\* is_unlocked with the tolerance 5.0 of the tooltip code (main.rs 416) in
\* place of 0.5.
is_unlocked_wide_tolerance(self, perk) ==
    radius_reaches(self, perk.angle, perk.radius_val - Fx(5))

\* is_unlocked with the comparison turned round: radius_val > radius + 0.5.
is_unlocked_flipped(self, perk) ==
    ~radius_reaches(self, perk.angle, perk.radius_val - 50)

\* main.rs 373-374:
\*   perk.radius_val <= self.get_current_radius_at_angle(perk.angle) + 0.5
\* that is, radius_val - 0.5 <= the radius.
is_unlocked(self, perk) ==
    radius_reaches(self, perk.angle, perk.radius_val - 50)

\* ------------------------------------------------------------------------
\* The perk catalog of StatApp::default (main.rs 46-179)

\* struct PerkPoint (main.rs 16-22).  name is the text of the name and number
\* the counter that format!("Red Giant {}", i + 1) appends (0: none).  The
\* description is display text no operation reads; it is left out.
PerkPoint(name, number, angle, radius_val, cost) ==
    [name |-> name, number |-> number,
     angle |-> angle, radius_val |-> radius_val, cost |-> cost]

\* main.rs 52-112: name, angle, radius; cost 10.0
fixed_supernovas ==
    << PerkPoint("Warrior", 0, ANG_STR_RED, Fx(80), Fx(10)),
       PerkPoint("Ranger", 0, ANG_DEX_GREEN, Fx(80), Fx(10)),
       PerkPoint("Mage", 0, ANG_INT_BLUE, Fx(80), Fx(10)),
       PerkPoint("Duelist", 0,
                 (ANG_STR_RED + ANG_DEX_GREEN) \div 2, Fx(40), Fx(10)),
       PerkPoint("Monk", 0,
                 (ANG_STR_RED + ANG_DEX_GREEN) \div 2, Fx(55), Fx(10)),
       PerkPoint("Ranger-Mage", 0,
                 (ANG_DEX_GREEN + (ANG_INT_BLUE + TWO_PI)) \div 2, Fx(40), Fx(10)),
       PerkPoint("Arcane Trickster", 0,
                 (ANG_DEX_GREEN + (ANG_INT_BLUE + TWO_PI)) \div 2, Fx(55), Fx(10)),
       PerkPoint("Battlemage", 0,
                 (ANG_INT_BLUE + ANG_STR_RED) \div 2, Fx(40), Fx(10)),
       PerkPoint("Paladin", 0,
                 (ANG_INT_BLUE + ANG_STR_RED) \div 2, Fx(55), Fx(10)) >>

\* main.rs 117-121: (start angle, end angle) of the three generator sectors
sectors ==
    << <<ANG_DEX_GREEN, ANG_STR_RED>>,
       <<ANG_STR_RED, ANG_INT_BLUE>>,
       <<ANG_INT_BLUE, ANG_DEX_GREEN + TWO_PI>> >>

\* The values rng.gen_range(0.0..1.0) can give, on the grid of t: k/36, k < 36.
TGrid == {30 * k : k \in 0..35}

\* max_radius_limit_at with max_v1 and max_v2 handed over in the wrong order.
max_radius_limit_swapped(t) ==
    LET max_v1 == Fx(100) - (Fx(90) * t) \div TOne
        max_v2 == Fx(10) + (Fx(90) * t) \div TOne
    IN  calculate_ellipse_radius(max_v2, max_v1, t)

\* main.rs 141-145: the largest radius a perk at t may get
max_radius_limit_at(t) ==
    LET max_v1 == Fx(100) - (Fx(90) * t) \div TOne
        max_v2 == Fx(10) + (Fx(90) * t) \div TOne
    IN  calculate_ellipse_radius(max_v1, max_v2, t)

\* max_radius_limit * min_r_percent (min_r_percent in hundredths), rounded up
\* to the next hundredth.
min_radius_at(max_radius_limit, min_r_percent) ==
    (max_radius_limit * min_r_percent + 99) \div 100

\* rng.gen_range(low..high) for f32: low + u * (high - low) with u in [0, 1),
\* u counted in thousandths.  (The call panics when low >= high.)
gen_range_f32(low, high, u) == low + (u * (high - low)) \div 1000

\* 4 rad (229.18 deg) in eighths of a degree, rounded up: from here to 8 rad
\* f32 values are spaced twice as far apart as between 2 rad and 4 rad.
FOUR_RAD == (Deg(720) * 10000) \div 31416 + 1

\* The spacing of the f32 angles around x
f32_spacing(x) == IF x >= FOUR_RAD THEN 2 ELSE 1

\* The f32 nearest to n / d (n >= 0, d > 0): the nearest multiple of the
\* spacing, and of two equally near ones the even multiple.
f32_round(n, d) ==
    LET step == f32_spacing(n \div d)
        q    == n \div (d * step)
        r    == n - q * d * step
    IN  IF 2 * r < d * step THEN q * step
        ELSE IF 2 * r > d * step THEN (q + 1) * step
        ELSE IF q % 2 = 0 THEN q * step
        ELSE (q + 1) * step

\* main.rs 133: start_ang + t * (end_ang - start_ang), the product rounded,
\* then the sum.
generated_angle(sector_idx, t) ==
    LET start_ang == sectors[sector_idx + 1][1]
        end_ang   == sectors[sector_idx + 1][2]
    IN  f32_round(start_ang + f32_round(t * (end_ang - start_ang), TOne), 1)

\* main.rs 124-158: one randomly placed perk.  The three values drawn from
\* rng are parameters: sector_idx in 0..2, t in TGrid, u in 0..999.
generate_safe_point(pt_name, number, cost, min_r_percent, sector_idx, t, u) ==
    LET angle     == generated_angle(sector_idx, t)
        max_radius_limit == max_radius_limit_at(t)
        radius    == gen_range_f32(min_radius_at(max_radius_limit, min_r_percent),
                                   max_radius_limit, u)
    IN  PerkPoint(pt_name, number, angle, radius, cost)

\* rand::thread_rng(): a generator seeded from outside the program.  Modelled
\* as a 16-bit linear congruential generator started from a seed the
\* environment chooses; every gen_range call advances it.
rng_next(x) == (25173 * x + 13849) % 65536

\* rng.gen_range(0..n) from the generator's current output x
rng_range(x, n) == (x * n) \div 65536

\* The number of giants and of stars generated (40 and 300 in main.rs 161, 166).
MaxGiants == 1
MaxStars == 1

\* The seeds the environment may hand to thread_rng: 0..MaxSeed.
MaxSeed == 2
RngSeeds == 0..MaxSeed

\* main.rs 161-168: for i in 0..n { generate_safe_point(format!("<name> {}", i + 1), ..) }
\* threading the generator through the three draws of each call.
RECURSIVE generate_points(_, _, _, _, _, _, _)
generate_points(acc, rng, pt_name, cost, min_r_percent, i, n) ==
    IF i >= n THEN [perks |-> acc, rng |-> rng]
    ELSE LET x1 == rng_next(rng)
             x2 == rng_next(x1)
             x3 == rng_next(x2)
             point == generate_safe_point(pt_name, i + 1, cost, min_r_percent,
                                          rng_range(x1, 3),
                                          30 * rng_range(x2, 36),
                                          rng_range(x3, 1000))
         IN  generate_points(Append(acc, point), x3, pt_name, cost,
                             min_r_percent, i + 1, n)

\* impl Default for StatApp (main.rs 46-179)
Default(seed) ==
    LET giants == generate_points(fixed_supernovas, seed, "Red Giant",
                                  Fx(5), 40, 0, MaxGiants)
        stars  == generate_points(giants.perks, giants.rng, "Star",
                                  Fx(2), 20, 0, MaxStars)
    IN  [strength |-> MIN_STAT_VAL,
         intelligence |-> MIN_STAT_VAL,
         dexterity |-> MIN_STAT_VAL,
         perks |-> stars.perks]

\* Every StatApp that Self::default() can return.
DefaultApps == {Default(seed) : seed \in RngSeeds}

\* ------------------------------------------------------------------------
\* stat_control_ui (main.rs 182-207) and update (main.rs 236-271)

clamp(x, lo, hi) == IF x < lo THEN lo ELSE IF x > hi THEN hi ELSE x

Min(a, b) == IF a < b THEN a ELSE b

\* stat_control_ui with remaining_global taken from the stat itself instead of
\* current_total (the wrong argument subtracted).
stat_control_ui_own_value(value, current_total, minus_clicked, plus_clicked) ==
    LET after_minus ==
            IF value > MIN_STAT_VAL /\ minus_clicked
            THEN clamp(value - Fx(5), MIN_STAT_VAL, MAX_STAT_VAL)
            ELSE value
        remaining_global == MAX_TOTAL_POINTS - value
        remaining_stat == MAX_STAT_VAL - after_minus
        can_add == remaining_global > 0 /\ remaining_stat > 0
    IN  IF can_add /\ plus_clicked
        THEN LET increment == Min(Fx(5), remaining_global)
             IN  clamp(after_minus + increment, MIN_STAT_VAL, MAX_STAT_VAL)
        ELSE after_minus

\* The new *value after one control's row is laid out: the "-" button, then
\* the "+" button, each acting when enabled and clicked.
stat_control_ui(value, current_total, minus_clicked, plus_clicked) ==
    LET after_minus ==
            IF value > MIN_STAT_VAL /\ minus_clicked
            THEN clamp(value - Fx(5), MIN_STAT_VAL, MAX_STAT_VAL)
            ELSE value
        remaining_global == MAX_TOTAL_POINTS - current_total
        remaining_stat == MAX_STAT_VAL - after_minus
        can_add == remaining_global > 0 /\ remaining_stat > 0
    IN  IF can_add /\ plus_clicked
        THEN LET increment == Min(Fx(5), remaining_global)
             IN  clamp(after_minus + increment, MIN_STAT_VAL, MAX_STAT_VAL)
        ELSE after_minus

VARIABLES
    strength, intelligence, dexterity,  \* StatApp's stat fields
    perks,                              \* StatApp::perks
    angle_arg,                          \* an angle handed to sector resolution
    resolved                            \* what sector resolution answered

vars == <<strength, intelligence, dexterity, perks, angle_arg, resolved>>

build == <<strength, intelligence, dexterity>>

\* &self, as far as the geometry reads it
Self ==
    [strength |-> strength, intelligence |-> intelligence, dexterity |-> dexterity]

Unresolved == [v1 |-> "", v2 |-> "", t |-> 0]

Buttons == {"STR-", "STR+", "INT-", "INT+", "DEX-", "DEX+", "Reset"}

\* The application after construction: Box::<StatApp>::default() (main.rs 486).
Init ==
    /\ \E app \in DefaultApps :
          /\ strength = app.strength
          /\ intelligence = app.intelligence
          /\ dexterity = app.dexterity
          /\ perks = app.perks
    /\ angle_arg = 0
    /\ resolved = Unresolved

\* One call of update with the set of buttons clicked in that frame:
\* total_points is read once, the three rows run in the order STR, INT, DEX,
\* then the Reset button.
Update(clicked) ==
    LET total_points == strength + intelligence + dexterity
        str == stat_control_ui(strength, total_points,
                               "STR-" \in clicked, "STR+" \in clicked)
        int == stat_control_ui(intelligence, total_points,
                               "INT-" \in clicked, "INT+" \in clicked)
        dex == stat_control_ui(dexterity, total_points,
                               "DEX-" \in clicked, "DEX+" \in clicked)
    IN  /\ IF "Reset" \in clicked
           THEN \E app \in DefaultApps :
                   /\ strength' = app.strength
                   /\ intelligence' = app.intelligence
                   /\ dexterity' = app.dexterity
                   /\ perks' = app.perks
           ELSE /\ strength' = str
                /\ intelligence' = int
                /\ dexterity' = dex
                /\ perks' = perks
        /\ UNCHANGED <<angle_arg, resolved>>

\* Any set of buttons may be clicked in one frame.
Next == \E clicked \in SUBSET Buttons : Update(clicked)

Spec == Init /\ [][Next]_vars

\* At most one button is clicked in a frame.
NextOnePerUpdate == \E b \in Buttons : Update({b})

SpecOnePerUpdate == Init /\ [][NextOnePerUpdate]_vars

\* ------------------------------------------------------------------------
\* Sector resolution as a function of its argument: every angle of
\* AngleInputs is handed to it once.

\* The arguments cover the turns -MaxTurn .. MaxTurn + 1 around the circle.
MaxTurn == 1
AngleInputs == (-MaxTurn * Deg(360)) .. ((MaxTurn + 2) * Deg(360))

InitGeom ==
    /\ strength = MIN_STAT_VAL
    /\ intelligence = MIN_STAT_VAL
    /\ dexterity = MIN_STAT_VAL
    /\ perks = <<>>
    /\ angle_arg \in AngleInputs
    /\ resolved = Unresolved

Resolve ==
    /\ resolved = Unresolved
    /\ resolved' = SectorOf(angle_arg)
    /\ UNCHANGED <<strength, intelligence, dexterity, perks, angle_arg>>

SpecGeom == InitGeom /\ [][Resolve]_vars

\* ------------------------------------------------------------------------
\* generate_safe_point as a function of what it draws from rng: every sector,
\* every t of the grid, and the lowest, middle and highest u.

USamples == {0, 500, 999}

Tiers == { [name |-> "Red Giant", cost |-> Fx(5), min_r_percent |-> 40],
           [name |-> "Star",      cost |-> Fx(2), min_r_percent |-> 20] }

InitGen ==
    /\ strength = MIN_STAT_VAL
    /\ intelligence = MIN_STAT_VAL
    /\ dexterity = MIN_STAT_VAL
    /\ perks = <<>>
    /\ angle_arg = 0
    /\ resolved = Unresolved

GenerateSafePoint ==
    /\ perks = <<>>
    /\ \E tier \in Tiers, sector_idx \in 0..2, t \in TGrid, u \in USamples :
          perks' = <<generate_safe_point(tier.name, 1, tier.cost,
                                         tier.min_r_percent, sector_idx, t, u)>>
    /\ UNCHANGED <<strength, intelligence, dexterity, angle_arg, resolved>>

SpecGen == InitGen /\ [][GenerateSafePoint]_vars

\* ------------------------------------------------------------------------
\* Build states

StatGrid == {Fx(5 * i) : i \in 2..20}

\* The builds with every stat a multiple of 5 in [10, 100] and a sum of at
\* most 120.
LegalBuilds ==
    { b \in [{"strength", "intelligence", "dexterity"} -> StatGrid] :
        b.strength + b.intelligence + b.dexterity <= MAX_TOTAL_POINTS }

Min3(a, b, c) == Min(a, Min(b, c))

\* ------------------------------------------------------------------------
\* C1: with one button clicked per update, starting from (10, 10, 10), every
\* stat stays within [10, 100] and the three stats sum to at most 120.
C1_StatsWithinBounds ==
    /\ \A v \in {strength, intelligence, dexterity} :
          MIN_STAT_VAL <= v /\ v <= MAX_STAT_VAL
    /\ strength + intelligence + dexterity <= MAX_TOTAL_POINTS
    /\ Self \in LegalBuilds

\* One stat raised to its maximum with the budget used up.
C1_Witness ==
    /\ strength = MAX_STAT_VAL
    /\ strength + intelligence + dexterity = MAX_TOTAL_POINTS

\* C2: every increment raises its stat by at most min(5, MAX_STAT - value,
\* MAX_TOTAL_POINTS - the sum of the three stats at the moment it is applied),
\* also when several controls are clicked in the same update.  The rows run
\* in the order STR, INT, DEX, so the sum INT's increment meets has STR's new
\* value in it, and the sum DEX's increment meets has STR's and INT's.
C2_IncrementWithinRemaining ==
    [][ /\ strength' > strength =>
              strength' - strength <=
                  Min3(Fx(5), MAX_STAT_VAL - strength,
                       MAX_TOTAL_POINTS - (strength + intelligence + dexterity))
        /\ intelligence' > intelligence =>
              intelligence' - intelligence <=
                  Min3(Fx(5), MAX_STAT_VAL - intelligence,
                       MAX_TOTAL_POINTS - (strength' + intelligence + dexterity))
        /\ dexterity' > dexterity =>
              dexterity' - dexterity <=
                  Min3(Fx(5), MAX_STAT_VAL - dexterity,
                       MAX_TOTAL_POINTS - (strength' + intelligence' + dexterity))
      ]_vars

\* C3: the perk catalog never changes after startup, whatever is clicked.
C3_CatalogImmutable == [][perks' = perks]_vars

\* ------------------------------------------------------------------------
\* The randomly placed perks of the catalog: those below the fixed tier's cost.
RandomPerks == { perks[i] : i \in { j \in 1..Len(perks) : perks[j].cost < Fx(10) } }

\* The t a random perk was generated with, read back from its angle: the
\* generator's sectors tile [45 deg, 405 deg).
GeneratorT(angle) ==
    LET i == CHOOSE j \in 1..3 : sectors[j][1] <= angle /\ angle < sectors[j][2]
    IN  ((angle - sectors[i][1]) * TOne) \div (sectors[i][2] - sectors[i][1])

\* ellipse_radius(100 - 90 t, 10 + 90 t, t), the envelope of the specification
EnvelopeRadius(t) ==
    calculate_ellipse_radius(Fx(100) - (Fx(90) * t) \div TOne,
                             Fx(10) + (Fx(90) * t) \div TOne, t)

\* min_r_percent of a random perk's tier, in hundredths
TierPercent(perk) == IF perk.cost = Fx(5) THEN 40 ELSE 20

\* C4: every randomly generated perk can be unlocked: some build with stats
\* in [10, 100] and a sum of at most 120 has radius_val <= current radius + 0.5
\* at the perk's angle.
C4_RandomPerkUnlockable ==
    \A perk \in RandomPerks : \E b \in LegalBuilds : is_unlocked(b, perk)

\* C5: every randomly placed perk has
\* min_r_percent * max_radius_limit <= radius_val <= max_radius_limit, with
\* max_radius_limit = ellipse_radius(100 - 90 t, 10 + 90 t, t) > 0 for its own t.
C5_RadiusWithinEnvelope ==
    \A perk \in RandomPerks :
        LET limit == EnvelopeRadius(GeneratorT(perk.angle))
        IN  /\ limit > 0
            /\ TierPercent(perk) * limit <= 100 * perk.radius_val
            /\ perk.radius_val <= limit

\* A star of the wraparound sector, past 360 deg, with the highest radius drawn.
C5_Witness ==
    \E perk \in RandomPerks :
        /\ perk.cost = Fx(2)
        /\ perk.angle > Deg(360)
        /\ perk.radius_val =
              gen_range_f32(min_radius_at(EnvelopeRadius(GeneratorT(perk.angle)), 20),
                            EnvelopeRadius(GeneratorT(perk.angle)), 999)

\* ------------------------------------------------------------------------
\* The number of eighths of a degree of [0, 360) that resolve to the pair (v1, v2)
SectorWidth(v1, v2) ==
    Cardinality({ a \in 0..(Deg(360) - 1) :
                    SectorOf(a).v1 = v1 /\ SectorOf(a).v2 = v2 })

SectorWidths ==
    << SectorWidth("dexterity", "strength"),
       SectorWidth("strength", "intelligence"),
       SectorWidth("intelligence", "dexterity") >>

\* C7: sector resolution partitions the circle: the angle normalized into
\* [0, 360) selects (dexterity, strength) iff it is in [45, 135),
\* (strength, intelligence) iff in [135, 270), (intelligence, dexterity) iff in
\* [270, 360) or [0, 45); the sectors are 90, 135 and 135 degrees wide.
C7_SectorsPartitionCircle ==
    resolved # Unresolved =>
        LET d == angle_arg % Deg(360)
            pair == <<resolved.v1, resolved.v2>>
        IN  /\ pair = <<"dexterity", "strength">>
                 <=> (Deg(45) <= d /\ d < Deg(135))
            /\ pair = <<"strength", "intelligence">>
                 <=> (Deg(135) <= d /\ d < Deg(270))
            /\ pair = <<"intelligence", "dexterity">>
                 <=> (Deg(270) <= d \/ d < Deg(45))
            /\ SectorWidths = <<Deg(90), Deg(135), Deg(135)>>

\* The upper edge of the first sector resolved: 135 deg belongs to the sector
\* that starts there.
C7_Witness ==
    /\ resolved # Unresolved
    /\ angle_arg = Deg(135)
    /\ resolved.v1 = "strength"
    /\ resolved.v2 = "intelligence"

\* The low landmark of the sector that governs a normalized angle
LowLandmark(d) ==
    IF Deg(45) <= d /\ d < Deg(135) THEN Deg(45)
    ELSE IF Deg(135) <= d /\ d < Deg(270) THEN Deg(135)
    ELSE Deg(270)

\* C8: for every input angle, also outside [0, 360), the t of the selected
\* sector lies in [0, 1], and it is 0 exactly at the sector's low landmark.
C8_TWithinUnitInterval ==
    resolved # Unresolved =>
        LET d == angle_arg % Deg(360)
        IN  /\ 0 <= resolved.t /\ resolved.t <= TOne
            /\ resolved.t = 0 <=> d = LowLandmark(d)

\* ------------------------------------------------------------------------
Axes == {"strength", "intelligence", "dexterity"}

\* The two axes that govern the sector of a perk's angle
GoverningAxes(perk) == {SectorOf(perk.angle).v1, SectorOf(perk.angle).v2}

\* C6: is_unlocked is monotone: for every perk of the catalog, a step that
\* changes the build only by raising one axis governing the perk's sector
\* leaves a perk that was unlocked before the step unlocked after it.
C6_UnlockMonotone ==
    [][ \A i \in 1..Len(perks) :
          ( /\ perks' = perks
            /\ \E a \in GoverningAxes(perks[i]) :
                  /\ Self'[a] > Self[a]
                  /\ \A o \in Axes \ {a} : Self'[o] = Self[o]
            /\ is_unlocked(Self, perks[i]) )
          => is_unlocked(Self', perks[i])
      ]_vars

\* A randomly placed perk that is unlocked, was already unlocked with one of
\* its governing axes 5 lower, and is locked in the initial build: its
\* governing axis was raised while it was unlocked.
C6_Witness ==
    \E perk \in RandomPerks : \E a \in GoverningAxes(perk) :
        /\ Self[a] >= MIN_STAT_VAL + Fx(5)
        /\ is_unlocked(Self, perk)
        /\ is_unlocked([Self EXCEPT ![a] = Self[a] - Fx(5)], perk)
        /\ ~is_unlocked([o \in Axes |-> MIN_STAT_VAL], perk)

\* ------------------------------------------------------------------------
\* C9: in every reachable build the radius at an axis's own landmark angle is
\* that axis's value: dexterity at 45 deg, strength at 135 deg, intelligence
\* at 270 deg.
C9_LandmarkRadiusIsAxisValue ==
    /\ get_current_radius_at_angle(Self, ANG_DEX_GREEN) = dexterity
    /\ get_current_radius_at_angle(Self, ANG_STR_RED) = strength
    /\ get_current_radius_at_angle(Self, ANG_INT_BLUE) = intelligence

\* Strength at 100 and the other two at 10: radius 100 at 135 deg, 10 at the
\* other two landmarks.
C9_Witness ==
    /\ strength = Fx(100) /\ intelligence = Fx(10) /\ dexterity = Fx(10)
    /\ get_current_radius_at_angle(Self, ANG_STR_RED) = Fx(100)
    /\ get_current_radius_at_angle(Self, ANG_DEX_GREEN) = Fx(10)
    /\ get_current_radius_at_angle(Self, ANG_INT_BLUE) = Fx(10)

\* ------------------------------------------------------------------------
\* The catalog's perk of that name
PerkNamed(name) == perks[CHOOSE i \in 1..Len(perks) : perks[i].name = name]

\* C10: Warrior, Ranger and Mage (radius 80 at the landmark of strength,
\* dexterity, intelligence) are unlocked exactly in the reachable builds where
\* that axis is at least 80, whatever the other two axes are.
C10_LandmarkPerkUnlockedFrom80 ==
    /\ is_unlocked(Self, PerkNamed("Warrior")) <=> strength >= Fx(80)
    /\ is_unlocked(Self, PerkNamed("Ranger")) <=> dexterity >= Fx(80)
    /\ is_unlocked(Self, PerkNamed("Mage")) <=> intelligence >= Fx(80)

\* Strength just at 80 with another axis off its floor: Warrior unlocked, Mage
\* and Ranger locked.
C10_Witness ==
    /\ strength = Fx(80) /\ intelligence > MIN_STAT_VAL
    /\ is_unlocked(Self, PerkNamed("Warrior"))
    /\ ~is_unlocked(Self, PerkNamed("Mage"))
    /\ ~is_unlocked(Self, PerkNamed("Ranger"))

\* ------------------------------------------------------------------------
\* The generator's angle handed to sector resolution, for every sector and
\* every t the generator can draw: the grid of t and the largest t below 1.0.

TDraws == TGrid \cup {TOne - 1}

InitAgree ==
    /\ strength = MIN_STAT_VAL
    /\ intelligence = MIN_STAT_VAL
    /\ dexterity = MIN_STAT_VAL
    /\ perks = <<>>
    /\ angle_arg = 0
    /\ resolved = Unresolved

ResolveGenerated ==
    /\ resolved = Unresolved
    /\ \E sector_idx \in 0..2, t \in TDraws :
          /\ angle_arg' = generated_angle(sector_idx, t)
          /\ resolved' = SectorOf(generated_angle(sector_idx, t))
    /\ UNCHANGED <<strength, intelligence, dexterity, perks>>

SpecAgree == InitAgree /\ [][ResolveGenerated]_vars

\* The axis whose landmark an angle is
AxisAtLandmark(angle) ==
    LET d == angle % Deg(360)
    IN  IF d = ANG_DEX_GREEN THEN "dexterity"
        ELSE IF d = ANG_STR_RED THEN "strength"
        ELSE "intelligence"

\* C11: for each generator sector (start, end) and each t in [0, 1), the angle
\* start + t * (end - start) is resolved by get_current_radius_at_angle to
\* the same sector, v1 the axis at start and v2 the axis at end, and to the t
\* the generator used (up to one step of t).
C11_GeneratorAndEngineAgree ==
    resolved # Unresolved =>
        \A sector_idx \in 0..2, t \in TDraws :
            generated_angle(sector_idx, t) = angle_arg =>
                /\ resolved.v1 = AxisAtLandmark(sectors[sector_idx + 1][1])
                /\ resolved.v2 = AxisAtLandmark(sectors[sector_idx + 1][2])
                /\ resolved.t - t \in -1..1

====
